---- MODULE Spec2Model ----
(***************************************************************************)
(* A model of the Nova interpreter: lexer, Pratt parser, tree-walking      *)
(* evaluator and the read-eval-print driver with its session Environment.  *)
(* Characters are one-character strings, an input line is a sequence of    *)
(* characters, Option<T> is a sequence of length 0 (None) or 1 (Some).     *)
(***************************************************************************)
EXTENDS Integers, Sequences, FiniteSets, TLC

\* ------------------------------------------------------------------ bounds

\* Width of the Integer object in bits (i64 in the program, scaled down).
IntBits == 5
\* Longest generated input line, in characters.
MaxLineLen == 3
\* Most binary operators in a generated operator chain.
MaxChainOps == 3
\* Most input lines the driver reads in one session.
MaxLines == 2
\* Deepest nesting of function calls that is evaluated (the host call stack).
MaxDepth == 3
\* Calls of the lexer's next_token beyond the number of characters of its input.
MaxCallsPastEnd == 2
\* Deepest nesting of if/else blocks around a generated return statement.
MaxIfNest == 3

RECURSIVE Pow2(_)
Pow2(n) == IF n = 0 THEN 1 ELSE 2 * Pow2(n - 1)

INT_MAX == Pow2(IntBits - 1) - 1
INT_MIN == 0 - Pow2(IntBits - 1)

\* Two's-complement wrap of a mathematical integer to the Integer width.
Wrap(n) == ((n - INT_MIN) % Pow2(IntBits)) + INT_MIN

None == << >>
Some(x) == << x >>

\* ------------------------------------------------------------------ tokens

Tok(t) == [type |-> t]
TokIdent(s) == [type |-> "Ident", lit |-> s]
TokInt(i) == [type |-> "Int", int |-> i]

lookup_ident(ident) ==
    CASE ident = <<"f", "n">> -> Tok("Function")
      [] ident = <<"l", "e", "t">> -> Tok("Let")
      [] ident = <<"m", "u", "t">> -> Tok("Mut")
      [] ident = <<"t", "r", "u", "e">> -> Tok("True")
      [] ident = <<"f", "a", "l", "s", "e">> -> Tok("False")
      [] ident = <<"i", "f">> -> Tok("If")
      [] ident = <<"e", "l", "s", "e">> -> Tok("Else")
      [] ident = <<"r", "e", "t", "u", "r", "n">> -> Tok("Return")
      [] ident = <<"u", "n", "s", "a", "f", "e">> -> Tok("Unsafe")
      [] ident = <<"z", "o", "n", "e">> -> Tok("Zone")
      [] OTHER -> TokIdent(ident)

\* Display of a token, used as the operator text of prefix and infix nodes.
TokenToString(t) ==
    CASE t.type = "Plus" -> "+"
      [] t.type = "Minus" -> "-"
      [] t.type = "Bang" -> "!"
      [] t.type = "Asterisk" -> "*"
      [] t.type = "Slash" -> "/"
      [] t.type = "LT" -> "<"
      [] t.type = "GT" -> ">"
      [] t.type = "Eq" -> "=="
      [] t.type = "NotEq" -> "!="
      [] OTHER -> t.type

\* ------------------------------------------------------------------- lexer

\* The character '\0'.
NUL == "\\0"

Letters == {"a", "b", "c", "d", "e", "f", "g", "h", "i", "j", "k", "l", "m",
            "n", "o", "p", "q", "r", "s", "t", "u", "v", "w", "x", "y", "z"}
Digits == {"0", "1", "2", "3", "4", "5", "6", "7", "8", "9"}

is_letter(ch) == ch \in Letters \/ ch = "_"
is_digit(ch) == ch \in Digits

DigitVal(ch) ==
    CASE ch = "0" -> 0 [] ch = "1" -> 1 [] ch = "2" -> 2 [] ch = "3" -> 3
      [] ch = "4" -> 4 [] ch = "5" -> 5 [] ch = "6" -> 6 [] ch = "7" -> 7
      [] ch = "8" -> 8 [] ch = "9" -> 9

\* str::parse::<i64>: Some(value), or None when the value does not fit.
RECURSIVE ParseDigits(_, _)
ParseDigits(lit, acc) ==
    IF lit = << >> THEN Some(acc)
    ELSE LET v == acc * 10 + DigitVal(Head(lit))
         IN  IF v > INT_MAX THEN None ELSE ParseDigits(Tail(lit), v)

parse_i64(lit) == ParseDigits(lit, 0)

read_char(l) ==
    [l EXCEPT !.ch = IF l.read_position >= Len(l.input) THEN NUL
                     ELSE l.input[l.read_position + 1],
              !.position = l.read_position,
              !.read_position = l.read_position + 1]

peek_char(l) ==
    IF l.read_position >= Len(l.input) THEN NUL ELSE l.input[l.read_position + 1]

LexerNew(input) ==
    read_char([input |-> input, position |-> 0, read_position |-> 0, ch |-> NUL])

RECURSIVE skip_whitespace(_)
skip_whitespace(l) ==
    IF l.ch = " " \/ l.ch = "\t" \/ l.ch = "\n" \/ l.ch = "\r"
    THEN skip_whitespace(read_char(l))
    ELSE l

RECURSIVE read_identifier_loop(_)
read_identifier_loop(l) ==
    IF is_letter(l.ch) THEN read_identifier_loop(read_char(l)) ELSE l

RECURSIVE read_number_loop(_)
read_number_loop(l) ==
    IF is_digit(l.ch) THEN read_number_loop(read_char(l)) ELSE l

\* input[from..to) with 0-based positions.
Slice(input, from, to) == SubSeq(input, from + 1, to)

\* Lexer::next_token after skip_whitespace: the lexer after the call, the token,
\* and whether the call panicked (the unwrap of a failed integer parse).
next_token_at(l) ==
    LET one(t) == [l |-> read_char(l), tok |-> Tok(t), panic |-> FALSE]
        two(second, t2, t1) ==
            IF peek_char(l) = second
            THEN [l |-> read_char(read_char(l)), tok |-> Tok(t2), panic |-> FALSE]
            ELSE [l |-> read_char(l), tok |-> Tok(t1), panic |-> FALSE]
        ident(l2) ==
            [l |-> l2, tok |-> lookup_ident(Slice(l.input, l.position, l2.position)),
             panic |-> FALSE]
        int(l2, v) ==
            IF v = None THEN [l |-> l2, tok |-> Tok("Illegal"), panic |-> TRUE]
            ELSE [l |-> l2, tok |-> TokInt(v[1]), panic |-> FALSE]
        number(l2) == int(l2, parse_i64(Slice(l.input, l.position, l2.position)))
    IN  CASE l.ch = "=" -> two("=", "Eq", "Assign")
          [] l.ch = "!" -> two("=", "NotEq", "Bang")
          [] l.ch = "<" -> one("LT")
          [] l.ch = ">" -> one("GT")
          [] l.ch = "+" -> one("Plus")
          [] l.ch = "-" -> two(">", "Arrow", "Minus")
          [] l.ch = "/" -> one("Slash")
          [] l.ch = "*" -> one("Asterisk")
          [] l.ch = "," -> one("Comma")
          [] l.ch = ";" -> one("Semicolon")
          [] l.ch = "(" -> one("LParen")
          [] l.ch = ")" -> one("RParen")
          [] l.ch = "{" -> one("LBrace")
          [] l.ch = "}" -> one("RBrace")
          [] l.ch = NUL -> one("EOF")
          [] OTHER ->
              IF is_letter(l.ch) THEN ident(read_identifier_loop(l))
              ELSE IF is_digit(l.ch) THEN number(read_number_loop(l))
              ELSE one("Illegal")

lexer_next_token(l) == next_token_at(skip_whitespace(l))

\* ---------------------------------------------------------------------- AST

Identifier(name) == [kind |-> "Identifier", name |-> name]
IntegerLiteral(v) == [kind |-> "IntegerLiteral", int |-> v]
BooleanLiteral(b) == [kind |-> "Boolean", bool |-> b]
PrefixExpression(op, right) == [kind |-> "Prefix", operator |-> op, right |-> right]
InfixExpression(op, left, right) ==
    [kind |-> "Infix", operator |-> op, left |-> left, right |-> right]
\* consequence is a block (a sequence of statements), alternative an Option of one.
IfExpression(cond, cons, alt) ==
    [kind |-> "If", condition |-> cond, consequence |-> cons, alternative |-> alt]
\* parameters are names, body is a block.
FunctionLiteral(params, body) == [kind |-> "Function", parameters |-> params, body |-> body]
CallExpression(function, args) ==
    [kind |-> "Call", function |-> function, arguments |-> args]

LetStatement(name, value) == [kind |-> "Let", name |-> name, value |-> value]
ReturnStatement(value) == [kind |-> "Return", return_value |-> value]
ExpressionStatement(e) == [kind |-> "Expression", expression |-> e]

\* ------------------------------------------------------------------- parser

Lowest == 0
Equals == 1
LessGreater == 2
Sum == 3
Product == 4
Prefix == 5
Call == 6

get_precedence(t) ==
    CASE t.type \in {"Eq", "NotEq"} -> Equals
      [] t.type \in {"LT", "GT"} -> LessGreater
      [] t.type \in {"Plus", "Minus"} -> Sum
      [] t.type \in {"Slash", "Asterisk"} -> Product
      [] t.type = "LParen" -> Call
      [] OTHER -> Lowest

InfixTokens == {"Plus", "Minus", "Slash", "Asterisk", "Eq", "NotEq", "LT", "GT"}

\* Parser::next_token. A parser that has panicked takes no further step.
next_token(p) ==
    LET advance(r) ==
            [p EXCEPT !.cur_token = p.peek_token, !.peek_token = r.tok,
                      !.l = r.l, !.panic = r.panic]
    IN  IF p.panic THEN p ELSE advance(lexer_next_token(p.l))

ParserNew(l) ==
    LET new(c, k) ==
            [l |-> k.l, cur_token |-> c.tok, peek_token |-> k.tok,
             errors |-> << >>, panic |-> c.panic \/ k.panic, unwrap_none |-> FALSE]
        peek(c) == new(c, IF c.panic THEN c ELSE lexer_next_token(c.l))
    IN  peek(lexer_next_token(l))

AddError(p, msg) == [p EXCEPT !.errors = Append(p.errors, msg)]

peek_error(p, t) == AddError(p, <<"Expected", t, p.peek_token>>)

no_prefix_parse_fn_error(p, t) == AddError(p, <<"No prefix parse function for", t>>)

\* expect_peek: the parser after the call and the boolean it returns.
expect_peek(p, t) ==
    IF p.peek_token.type = t
    THEN [p |-> next_token(p), ok |-> TRUE]
    ELSE [p |-> peek_error(p, t), ok |-> FALSE]

expect_peek_ident(p) ==
    IF p.peek_token.type = "Ident"
    THEN [p |-> next_token(p), ok |-> TRUE]
    ELSE [p |-> AddError(p, <<"Expected Ident, got", p.peek_token>>), ok |-> FALSE]

\* The optional ';' after a statement.
SkipSemicolon(p) == IF p.peek_token.type = "Semicolon" THEN next_token(p) ELSE p

\* Every parse function returns [p |-> the parser after the call, r |-> its result].
Ret(p, r) == [p |-> p, r |-> r]

parse_identifier(p) ==
    IF p.cur_token.type = "Ident"
    THEN Ret(p, Some(Identifier(p.cur_token.lit))) ELSE Ret(p, None)

parse_integer_literal(p) ==
    IF p.cur_token.type = "Int"
    THEN Ret(p, Some(IntegerLiteral(p.cur_token.int))) ELSE Ret(p, None)

parse_boolean(p) ==
    CASE p.cur_token.type = "True" -> Ret(p, Some(BooleanLiteral(TRUE)))
      [] p.cur_token.type = "False" -> Ret(p, Some(BooleanLiteral(FALSE)))
      [] OTHER -> Ret(p, None)

RECURSIVE parse_statement(_)
RECURSIVE parse_expression(_, _)
RECURSIVE parse_expression_loop(_, _)
RECURSIVE parse_block_statement(_)
RECURSIVE parse_block_statement_loop(_, _)
RECURSIVE parse_call_arguments_loop(_, _)

parse_prefix_expression(p) ==
    LET node(right) ==
            IF right.r = None THEN Ret(right.p, None)
            ELSE Ret(right.p,
                     Some(PrefixExpression(TokenToString(p.cur_token), right.r[1])))
    IN  node(parse_expression(next_token(p), Prefix))

parse_grouped_expression(p) ==
    LET close(exp, e) == IF ~e.ok THEN Ret(e.p, None) ELSE Ret(e.p, exp.r)
        group(exp) == close(exp, expect_peek(exp.p, "RParen"))
    IN  group(parse_expression(next_token(p), Lowest))

parse_if_expression(p) ==
    LET node(condition, consequence, alternative) ==
            Ret(alternative.p,
                Some(IfExpression(condition, consequence, Some(alternative.r))))
        elseBrace(condition, consequence, e) ==
            IF ~e.ok THEN Ret(e.p, None)
            ELSE node(condition, consequence, parse_block_statement(e.p))
        else(condition, consequence) ==
            IF consequence.p.peek_token.type = "Else"
            THEN elseBrace(condition, consequence.r,
                           expect_peek(next_token(consequence.p), "LBrace"))
            ELSE Ret(consequence.p, Some(IfExpression(condition, consequence.r, None)))
        lbrace(condition, e) ==
            IF ~e.ok THEN Ret(e.p, None)
            ELSE else(condition, parse_block_statement(e.p))
        rparen(condition, e) ==
            IF ~e.ok THEN Ret(e.p, None)
            ELSE lbrace(condition, expect_peek(e.p, "LBrace"))
        cond(condition) ==
            IF condition.r = None THEN Ret(condition.p, None)
            ELSE rparen(condition.r[1], expect_peek(condition.p, "RParen"))
        lparen(e) ==
            IF ~e.ok THEN Ret(e.p, None)
            ELSE cond(parse_expression(next_token(e.p), Lowest))
    IN  lparen(expect_peek(p, "LParen"))

\* parse_infix_expression that parses its right operand at the Lowest precedence.
parse_infix_expression_Lowest(p, left) ==
    LET node(right) ==
            IF right.r = None THEN Ret(right.p, None)
            ELSE Ret(right.p,
                     Some(InfixExpression(TokenToString(p.cur_token), left, right.r[1])))
    IN  node(parse_expression(next_token(p), Lowest))

parse_infix_expression(p, left) ==
    LET node(right) ==
            IF right.r = None THEN Ret(right.p, None)
            ELSE Ret(right.p,
                     Some(InfixExpression(TokenToString(p.cur_token), left, right.r[1])))
    IN  node(parse_expression(next_token(p), get_precedence(p.cur_token)))

\* The `while self.peek_token == Comma` loop of parse_call_arguments.
parse_call_arguments_loop(p, args) ==
    LET push(arg) == parse_call_arguments_loop(arg.p, args \o arg.r)
    IN  IF ~p.panic /\ p.peek_token.type = "Comma"
        THEN push(parse_expression(next_token(next_token(p)), Lowest))
        ELSE Ret(p, args)

parse_call_arguments(p) ==
    LET close(args, e) == IF ~e.ok THEN Ret(e.p, << >>) ELSE Ret(e.p, args)
        rest(r) == close(r.r, expect_peek(r.p, "RParen"))
        first(arg) == rest(parse_call_arguments_loop(arg.p, arg.r))
    IN  IF p.peek_token.type = "RParen" THEN Ret(next_token(p), << >>)
        ELSE first(parse_expression(next_token(p), Lowest))

parse_call_expression(p, function) ==
    LET node(arguments) ==
            Ret(arguments.p, Some(CallExpression(function, arguments.r)))
    IN  node(parse_call_arguments(p))

\* The identifier the current token names, if it is one.
CurIdent(p) == IF p.cur_token.type = "Ident" THEN <<p.cur_token.lit>> ELSE << >>

\* The `while self.peek_token == Comma` loop of parse_function_parameters.
RECURSIVE parse_function_parameters_loop(_, _)
parse_function_parameters_loop(p, identifiers) ==
    LET push(p2) == parse_function_parameters_loop(p2, identifiers \o CurIdent(p2))
    IN  IF ~p.panic /\ p.peek_token.type = "Comma"
        THEN push(next_token(next_token(p)))
        ELSE Ret(p, identifiers)

parse_function_parameters(p) ==
    LET close(identifiers, e) ==
            IF ~e.ok THEN Ret(e.p, << >>) ELSE Ret(e.p, identifiers)
        rest(r) == close(r.r, expect_peek(r.p, "RParen"))
        first(p1) == rest(parse_function_parameters_loop(p1, CurIdent(p1)))
    IN  IF p.peek_token.type = "RParen" THEN Ret(next_token(p), << >>)
        ELSE first(next_token(p))

parse_function_literal(p) ==
    LET node(parameters, body) ==
            Ret(body.p, Some(FunctionLiteral(parameters, body.r)))
        lbrace(parameters, e) ==
            IF ~e.ok THEN Ret(e.p, None)
            ELSE node(parameters, parse_block_statement(e.p))
        params(parameters) ==
            lbrace(parameters.r, expect_peek(parameters.p, "LBrace"))
        lparen(e) ==
            IF ~e.ok THEN Ret(e.p, None) ELSE params(parse_function_parameters(e.p))
    IN  lparen(expect_peek(p, "LParen"))

\* left_exp.unwrap() on None: the parser panics.
UnwrapNone(p) == [p EXCEPT !.panic = TRUE, !.unwrap_none = TRUE]

\* The infix loop of parse_expression; left is [p |-> parser, r |-> left_exp].
parse_expression_loop(left, precedence) ==
    LET infix_(p1) ==
            IF left.r = None THEN Ret(UnwrapNone(p1), None)
            ELSE parse_expression_loop(parse_infix_expression(p1, left.r[1]), precedence)
        call_(p1) ==
            IF left.r = None THEN Ret(UnwrapNone(p1), None)
            ELSE parse_expression_loop(parse_call_expression(p1, left.r[1]), precedence)
    IN  IF ~left.p.panic /\ left.p.peek_token.type # "Semicolon"
           /\ precedence < get_precedence(left.p.peek_token)
        THEN CASE left.p.peek_token.type \in InfixTokens -> infix_(next_token(left.p))
               [] left.p.peek_token.type = "LParen" -> call_(next_token(left.p))
               [] OTHER -> left
        ELSE left

parse_expression(p, precedence) ==
    IF p.panic THEN Ret(p, None)
    ELSE CASE p.cur_token.type = "Ident" ->
                parse_expression_loop(parse_identifier(p), precedence)
           [] p.cur_token.type = "Int" ->
                parse_expression_loop(parse_integer_literal(p), precedence)
           [] p.cur_token.type \in {"Bang", "Minus"} ->
                parse_expression_loop(parse_prefix_expression(p), precedence)
           [] p.cur_token.type = "LParen" ->
                parse_expression_loop(parse_grouped_expression(p), precedence)
           [] p.cur_token.type = "If" ->
                parse_expression_loop(parse_if_expression(p), precedence)
           [] p.cur_token.type = "Function" ->
                parse_expression_loop(parse_function_literal(p), precedence)
           [] p.cur_token.type \in {"True", "False"} ->
                parse_expression_loop(parse_boolean(p), precedence)
           [] OTHER -> Ret(no_prefix_parse_fn_error(p, p.cur_token), None)

parse_let_statement(p) ==
    LET node(name, value) ==
            IF value.r = None THEN Ret(value.p, None)
            ELSE Ret(SkipSemicolon(value.p), Some(LetStatement(name, value.r[1])))
        assign(name, e) ==
            IF ~e.ok THEN Ret(e.p, None)
            ELSE node(name, parse_expression(next_token(e.p), Lowest))
        ident(e) ==
            IF ~e.ok THEN Ret(e.p, None)
            ELSE assign(e.p.cur_token.lit, expect_peek(e.p, "Assign"))
    IN  ident(expect_peek_ident(p))

parse_return_statement(p) ==
    LET node(return_value) ==
            IF return_value.r = None THEN Ret(return_value.p, None)
            ELSE Ret(SkipSemicolon(return_value.p),
                     Some(ReturnStatement(return_value.r[1])))
    IN  node(parse_expression(next_token(p), Lowest))

parse_expression_statement(p) ==
    LET node(expression) ==
            IF expression.r = None THEN Ret(expression.p, None)
            ELSE Ret(SkipSemicolon(expression.p),
                     Some(ExpressionStatement(expression.r[1])))
    IN  node(parse_expression(p, Lowest))

parse_statement(p) ==
    CASE p.cur_token.type = "Let" -> parse_let_statement(p)
      [] p.cur_token.type = "Return" -> parse_return_statement(p)
      [] OTHER -> parse_expression_statement(p)

\* The loop of parse_block_statement: r is the block's statements.
parse_block_statement_loop(p, statements) ==
    LET push(stmt) == parse_block_statement_loop(next_token(stmt.p), statements \o stmt.r)
    IN  IF ~p.panic /\ p.cur_token.type # "RBrace" /\ p.cur_token.type # "EOF"
        THEN push(parse_statement(p))
        ELSE Ret(p, statements)

parse_block_statement(p) == parse_block_statement_loop(next_token(p), << >>)

\* The loop of parse_program: r is the program's statements.
RECURSIVE parse_program_loop(_, _)
parse_program_loop(p, statements) ==
    LET push(stmt) == parse_program_loop(next_token(stmt.p), statements \o stmt.r)
    IN  IF ~p.panic /\ p.cur_token.type # "EOF"
        THEN push(parse_statement(p))
        ELSE Ret(p, statements)

parse_program(p) == parse_program_loop(p, << >>)

\* ------------------------------------------------------------------ objects

Integer(i) == [type |-> "Integer", int |-> i]
Boolean(b) == [type |-> "Boolean", bool |-> b]
Null == [type |-> "Null"]
ReturnValue(o) == [type |-> "ReturnValue", val |-> o]
Function(parameters, body) ==
    [type |-> "Function", parameters |-> parameters, body |-> body]

IsReturnValue(o) == o.type = "ReturnValue"

\* -------------------------------------------------------------- environment

\* An Environment is its store: a function from the bound names to Objects.
EnvironmentNew == [n \in {} |-> Null]

EnvironmentGet(store, name) ==
    IF name \in DOMAIN store THEN Some(store[name]) ELSE None

\* Environment::set that keeps the binding a name already has.
EnvironmentSet_KeepFirst(store, name, val) ==
    [n \in (DOMAIN store) \cup {name} |->
        IF n \in DOMAIN store THEN store[n] ELSE val]

\* Environment::set: the store after the insert; the call returns val.
EnvironmentSet(store, name, val) ==
    [n \in (DOMAIN store) \cup {name} |-> IF n = name THEN val ELSE store[n]]

\* -------------------------------------------------------------------- state

VARIABLES
    overflow_checks, \* the build profile: whether integer overflow panics
    pc,              \* the driver's position: read, parse, eval, print, crashed, exit
    nlines,          \* lines read so far
    line,            \* the line being processed
    program,         \* the statements parse_program returned
    errors,          \* Parser::errors
    stmt_i,          \* eval_program: index of the next statement
    result,          \* eval_program: result
    env,             \* the session Environment's store
    hist,            \* history: what evaluation did to Environments and calls
    fault,           \* the panic that ended the process, or "none"
    infix,           \* the operator application under study (SpecInfix)
    parser,          \* main: the Parser p once parse_program has run on the line
    lex              \* the Lexer under study and the tokens it returned (SpecLex)

vars == <<overflow_checks, pc, nlines, line, program, errors, stmt_i, result, env,
          hist, fault, infix, parser, lex>>

\* ---------------------------------------------------------------- evaluator

\* The result of an operation that may panic.
Ok(obj) == [obj |-> obj, fault |-> "none"]
Panic(f) == [obj |-> Null, fault |-> f]

\* An i64 result: out of range it panics when the build checks overflow and
\* wraps when it does not.
Arith(n) ==
    IF INT_MIN <= n /\ n <= INT_MAX THEN Ok(Integer(n))
    ELSE IF overflow_checks THEN Panic("overflow") ELSE Ok(Integer(Wrap(n)))

Abs(n) == IF n < 0 THEN 0 - n ELSE n

\* i64 division: truncates toward zero.
TruncDiv(a, b) ==
    IF (a < 0) # (b < 0) THEN 0 - (Abs(a) \div Abs(b)) ELSE Abs(a) \div Abs(b)

eval_bang_operator_expression(right) ==
    CASE right = Boolean(TRUE) -> Boolean(FALSE)
      [] right = Boolean(FALSE) -> Boolean(TRUE)
      [] right = Null -> Boolean(TRUE)
      [] OTHER -> Boolean(FALSE)

eval_minus_operator_expression(right) ==
    IF right.type = "Integer" THEN Arith(0 - right.int) ELSE Ok(Null)

eval_prefix_expression(operator, right) ==
    CASE operator = "!" -> Ok(eval_bang_operator_expression(right))
      [] operator = "-" -> eval_minus_operator_expression(right)
      [] OTHER -> Ok(Null)

eval_integer_infix_expression(operator, left, right) ==
    CASE operator = "+" -> Arith(left + right)
      [] operator = "-" -> Arith(left - right)
      [] operator = "*" -> Arith(left * right)
      [] operator = "/" ->
            IF right = 0 THEN Panic("divide by zero")
            ELSE IF left = INT_MIN /\ right = 0 - 1 THEN Panic("overflow")
            ELSE Ok(Integer(TruncDiv(left, right)))
      [] operator = "<" -> Ok(Boolean(left < right))
      [] operator = ">" -> Ok(Boolean(left > right))
      [] operator = "==" -> Ok(Boolean(left = right))
      [] operator = "!=" -> Ok(Boolean(left # right))
      [] OTHER -> Ok(Null)

\* eval_infix_expression that also compares two Booleans.
eval_infix_expression_Booleans(operator, left, right) ==
    IF left.type = "Integer" /\ right.type = "Integer"
    THEN eval_integer_infix_expression(operator, left.int, right.int)
    ELSE IF left.type = "Boolean" /\ right.type = "Boolean" /\ operator = "=="
    THEN Ok(Boolean(left.bool = right.bool))
    ELSE IF left.type = "Boolean" /\ right.type = "Boolean" /\ operator = "!="
    THEN Ok(Boolean(left.bool # right.bool))
    ELSE Ok(Null)

eval_infix_expression(operator, left, right) ==
    IF left.type = "Integer" /\ right.type = "Integer"
    THEN eval_integer_infix_expression(operator, left.int, right.int)
    ELSE Ok(Null)

is_truthy(obj) ==
    CASE obj = Null -> FALSE
      [] obj = Boolean(TRUE) -> TRUE
      [] obj = Boolean(FALSE) -> FALSE
      [] OTHER -> TRUE

\* The evaluator threads one record through its calls: the Environment it was
\* handed (store), the call depth, a fault once a panic has happened, and the
\* history. params and lets describe the current Environment: the names bound as
\* parameters and the value each name was last bound to by a let statement.
EvRet(obj, s) == [obj |-> obj, s |-> s]
Faulted(s) == s.fault # "none"
Fault(s, f) == EvRet(Null, [s EXCEPT !.fault = f])

\* History: the value each name was last bound to by a let statement evaluated
\* in an Environment, kept beside that Environment.
NoLets == [n \in {} |-> Null]
RecordLet(lets, name, val) ==
    [n \in (DOMAIN lets) \cup {name} |-> IF n = name THEN val ELSE lets[n]]
LastLet(lets, name) == IF name \in DOMAIN lets THEN <<lets[name]>> ELSE << >>

\* env.set(name, val) of a let statement.
LetSet(s, name, val) ==
    [s EXCEPT !.store = EnvironmentSet(s.store, name, val),
              !.lets = RecordLet(s.lets, name, val),
              !.sets = @ \cup {[depth |-> s.depth, name |-> name, val |-> val]}]

\* extended_env.set(param, args[i]) of apply_function.
ParamSet(s, name, val) ==
    [s EXCEPT !.store = EnvironmentSet(s.store, name, val),
              !.params = @ \cup {name},
              !.sets = @ \cup {[depth |-> s.depth, name |-> name, val |-> val]}]

\* env.get(name) of an identifier expression: a miss is Null.
IdentGet(s, name) ==
    LET value(val) ==
            EvRet(val,
                  [s EXCEPT !.gets = @ \cup
                      {[depth |-> s.depth, name |-> name, val |-> val,
                        isParam |-> name \in s.params,
                        let |-> LastLet(s.lets, name)]}])
        got(o) == value(IF o = None THEN Null ELSE o[1])
    IN  got(EnvironmentGet(s.store, name))

RECURSIVE eval_statement(_, _)
RECURSIVE eval_expression(_, _)
RECURSIVE eval_expressions(_, _, _)
RECURSIVE eval_block_statement_loop(_, _, _, _)
RECURSIVE eval_block_statement_loop_Unwraps(_, _, _, _)

\* An eval_block_statement that unwraps the ReturnValue it stops at.
eval_block_statement_loop_Unwraps(block, i, last, s) ==
    LET next(r) ==
            IF Faulted(r.s) THEN r
            ELSE IF IsReturnValue(r.obj) THEN EvRet(r.obj.val, r.s)
            ELSE eval_block_statement_loop_Unwraps(block, i + 1, r.obj, r.s)
    IN  IF Faulted(s) \/ i > Len(block) THEN EvRet(last, s)
        ELSE next(eval_statement(block[i], s))

\* The loop of eval_block_statement from statement i on; last is the value of
\* the statement before it.
eval_block_statement_loop(block, i, last, s) ==
    LET next(r) ==
            IF Faulted(r.s) \/ IsReturnValue(r.obj) THEN r
            ELSE eval_block_statement_loop(block, i + 1, r.obj, r.s)
    IN  IF Faulted(s) \/ i > Len(block) THEN EvRet(last, s)
        ELSE next(eval_statement(block[i], s))

eval_block_statement(block, s) == eval_block_statement_loop(block, 1, Null, s)

eval_if_expression(ie, s) ==
    LET branch(condition) ==
            IF Faulted(condition.s) THEN condition
            ELSE IF is_truthy(condition.obj)
            THEN eval_block_statement(ie.consequence, condition.s)
            ELSE IF ie.alternative # None
            THEN eval_block_statement(ie.alternative[1], condition.s)
            ELSE EvRet(Null, condition.s)
    IN  branch(eval_expression(ie.condition, s))

\* eval_expressions from expression i on: r.obj is the sequence of values so far.
eval_expressions(exps, i, r) ==
    LET push(e) == eval_expressions(exps, i + 1, EvRet(Append(r.obj, e.obj), e.s))
    IN  IF Faulted(r.s) \/ i > Len(exps) THEN r
        ELSE push(eval_expression(exps[i], r.s))

\* History: apply_function was called with fn_obj and args from the body of the
\* function s.self (None at the top level of the program).
Entered(s, fn_obj, args) ==
    [s EXCEPT !.entered = @ \cup {[depth |-> s.depth + 1, fn |-> fn_obj,
                                   args |-> args, caller |-> s.self]}]

\* A parameter-binding loop that binds a parameter without an argument to Null.
RECURSIVE BindParameters_PadNull(_, _, _, _)
BindParameters_PadNull(parameters, args, i, s) ==
    IF Faulted(s) \/ i > Len(parameters) THEN s
    ELSE BindParameters_PadNull(parameters, args, i + 1,
             ParamSet(s, parameters[i], IF i > Len(args) THEN Null ELSE args[i]))

\* The parameter-binding loop of apply_function: args[i] out of bounds panics.
RECURSIVE BindParameters(_, _, _, _)
BindParameters(parameters, args, i, s) ==
    IF Faulted(s) \/ i > Len(parameters) THEN s
    ELSE IF i > Len(args) THEN [s EXCEPT !.fault = "index out of bounds"]
    ELSE BindParameters(parameters, args, i + 1, ParamSet(s, parameters[i], args[i]))

\* apply_function that extends the caller's Environment instead of a new one.
apply_function_InheritsEnv(fn_obj, args, s) ==
    LET return(extended_env, evaluated, out) ==
            EvRet(out,
                  [evaluated.s EXCEPT
                      !.store = s.store, !.depth = s.depth, !.self = s.self,
                      !.params = s.params, !.lets = s.lets,
                      !.calls = @ \cup
                          {[depth |-> s.depth + 1, fn |-> fn_obj, args |-> args,
                            bound |-> extended_env.store, body |-> evaluated.obj,
                            result |-> out]}])
        unwrap(extended_env, evaluated) ==
            IF Faulted(evaluated.s) THEN EvRet(Null, evaluated.s)
            ELSE return(extended_env, evaluated,
                        IF IsReturnValue(evaluated.obj) THEN evaluated.obj.val
                        ELSE evaluated.obj)
        body(extended_env) ==
            unwrap(extended_env, eval_block_statement(fn_obj.body, extended_env))
        enter(e) ==
            IF s.depth >= MaxDepth THEN Fault(e, "stack overflow")
            ELSE body(BindParameters(fn_obj.parameters, args, 1,
                          [e EXCEPT !.depth = s.depth + 1, !.self = Some(fn_obj),
                                    !.params = {}, !.lets = NoLets]))
    IN  enter(Entered(s, fn_obj, args))

\* apply_function that runs the body in the caller's Environment and keeps what
\* the body bound.
apply_function_LeaksEnv(fn_obj, args, s) ==
    LET return(extended_env, evaluated, out) ==
            EvRet(out,
                  [evaluated.s EXCEPT
                      !.depth = s.depth, !.self = s.self,
                      !.params = s.params, !.lets = s.lets,
                      !.calls = @ \cup
                          {[depth |-> s.depth + 1, fn |-> fn_obj, args |-> args,
                            bound |-> extended_env.store, body |-> evaluated.obj,
                            result |-> out]}])
        unwrap(extended_env, evaluated) ==
            IF Faulted(evaluated.s) THEN EvRet(Null, evaluated.s)
            ELSE return(extended_env, evaluated,
                        IF IsReturnValue(evaluated.obj) THEN evaluated.obj.val
                        ELSE evaluated.obj)
        body(extended_env) ==
            unwrap(extended_env, eval_block_statement(fn_obj.body, extended_env))
        enter(e) ==
            IF s.depth >= MaxDepth THEN Fault(e, "stack overflow")
            ELSE body(BindParameters(fn_obj.parameters, args, 1,
                          [e EXCEPT !.depth = s.depth + 1,
                                    !.self = Some(fn_obj),
                                    !.params = {}, !.lets = NoLets]))
    IN  enter(Entered(s, fn_obj, args))

apply_function(fn_obj, args, s) ==
    LET return(extended_env, evaluated, out) ==
            EvRet(out,
                  [evaluated.s EXCEPT
                      !.store = s.store, !.depth = s.depth, !.self = s.self,
                      !.params = s.params, !.lets = s.lets,
                      !.calls = @ \cup
                          {[depth |-> s.depth + 1, fn |-> fn_obj, args |-> args,
                            bound |-> extended_env.store, body |-> evaluated.obj,
                            result |-> out]}])
        unwrap(extended_env, evaluated) ==
            IF Faulted(evaluated.s) THEN EvRet(Null, evaluated.s)
            ELSE return(extended_env, evaluated,
                        IF IsReturnValue(evaluated.obj) THEN evaluated.obj.val
                        ELSE evaluated.obj)
        body(extended_env) ==
            unwrap(extended_env, eval_block_statement(fn_obj.body, extended_env))
        enter(e) ==
            IF s.depth >= MaxDepth THEN Fault(e, "stack overflow")
            ELSE body(BindParameters(fn_obj.parameters, args, 1,
                          [e EXCEPT !.store = EnvironmentNew, !.depth = s.depth + 1,
                                    !.self = Some(fn_obj),
                                    !.params = {}, !.lets = NoLets]))
    IN  enter(Entered(s, fn_obj, args))

\* An operator's value or panic, in the evaluator's record s.
Applied(v, s) == IF v.fault # "none" THEN Fault(s, v.fault) ELSE EvRet(v.obj, s)

eval_expression(exp, s) ==
    LET prefix(right) ==
            IF Faulted(right.s) THEN right
            ELSE Applied(eval_prefix_expression(exp.operator, right.obj), right.s)
        infix_(left, right) ==
            IF Faulted(right.s) THEN right
            ELSE Applied(eval_infix_expression(exp.operator, left.obj, right.obj),
                         right.s)
        left_(left) == infix_(left, eval_expression(exp.right, left.s))
        call(function, args) ==
            IF Faulted(args.s) THEN EvRet(Null, args.s)
            ELSE IF function.obj.type = "Function"
            THEN apply_function(function.obj, args.obj, args.s)
            ELSE EvRet(Null, args.s)
        callee(function) ==
            call(function, eval_expressions(exp.arguments, 1, EvRet(<< >>, function.s)))
    IN  IF Faulted(s) THEN EvRet(Null, s)
        ELSE CASE exp.kind = "IntegerLiteral" -> EvRet(Integer(exp.int), s)
               [] exp.kind = "Boolean" -> EvRet(Boolean(exp.bool), s)
               [] exp.kind = "Prefix" -> prefix(eval_expression(exp.right, s))
               [] exp.kind = "Infix" -> left_(eval_expression(exp.left, s))
               [] exp.kind = "If" -> eval_if_expression(exp, s)
               [] exp.kind = "Identifier" -> IdentGet(s, exp.name)
               [] exp.kind = "Function" -> EvRet(Function(exp.parameters, exp.body), s)
               [] exp.kind = "Call" -> callee(eval_expression(exp.function, s))
               [] OTHER -> EvRet(Null, s)

eval_statement(stmt, s) ==
    LET let(value) ==
            IF Faulted(value.s) THEN value
            ELSE EvRet(value.obj, LetSet(value.s, stmt.name, value.obj))
        return(value) ==
            IF Faulted(value.s) THEN value
            ELSE EvRet(ReturnValue(value.obj), value.s)
    IN  CASE stmt.kind = "Expression" -> eval_expression(stmt.expression, s)
          [] stmt.kind = "Let" -> let(eval_expression(stmt.value, s))
          [] stmt.kind = "Return" -> return(eval_expression(stmt.return_value, s))

\* -------------------------------------------------------------- input lines

\* 1 + 2 * 3
LinePrecedence ==
    <<"1", " ", "+", " ", "2", " ", "*", " ", "3">>

\* 1 - 2 - 3
LineLeftAssoc ==
    <<"1", " ", "-", " ", "2", " ", "-", " ", "3">>

\* (a blank line)
LineBlank ==
    <<" ">>

\* let x = 5; return x; 9
LineReturnThenNine ==
    <<"l", "e", "t", " ", "x", " ", "=", " ", "5", ";", " ", "r", "e", "t", "u", "r",
      "n", " ", "x", ";", " ", "9">>

\* let y = 5; return y; let y = 9
LineReturnThenLet ==
    <<"l", "e", "t", " ", "y", " ", "=", " ", "5", ";", " ", "r", "e", "t", "u", "r",
      "n", " ", "y", ";", " ", "l", "e", "t", " ", "y", " ", "=", " ", "9">>

\* let x = if (true) { return 5 }
LineLetReturnSignal ==
    <<"l", "e", "t", " ", "x", " ", "=", " ", "i", "f", " ", "(", "t", "r", "u", "e",
      ")", " ", "{", " ", "r", "e", "t", "u", "r", "n", " ", "5", " ", "}">>

\* return if (true) { return 1 }
LineNestedReturn ==
    <<"r", "e", "t", "u", "r", "n", " ", "i", "f", " ", "(", "t", "r", "u", "e", ")",
      " ", "{", " ", "r", "e", "t", "u", "r", "n", " ", "1", " ", "}">>

\* fn() { return if (true) { return 1 } }()
LineCallNestedReturn ==
    <<"f", "n", "(", ")", " ", "{", " ", "r", "e", "t", "u", "r", "n", " ", "i", "f",
      " ", "(", "t", "r", "u", "e", ")", " ", "{", " ", "r", "e", "t", "u", "r", "n",
      " ", "1", " ", "}", " ", "}", "(", ")">>

\* fn(a) { a }(if (true) { return 1 })
LineArgReturnSignal ==
    <<"f", "n", "(", "a", ")", " ", "{", " ", "a", " ", "}", "(", "i", "f", " ", "(",
      "t", "r", "u", "e", ")", " ", "{", " ", "r", "e", "t", "u", "r", "n", " ", "1",
      " ", "}", ")">>

\* fn(a) { x + a }(2)
LineFreeIdent ==
    <<"f", "n", "(", "a", ")", " ", "{", " ", "x", " ", "+", " ", "a", " ", "}", "(",
      "2", ")">>

\* fn() { y }()
LineFreeIdentBare ==
    <<"f", "n", "(", ")", " ", "{", " ", "y", " ", "}", "(", ")">>

\* fn() { let y = 1; y }()
LineLocalLet ==
    <<"f", "n", "(", ")", " ", "{", " ", "l", "e", "t", " ", "y", " ", "=", " ", "1",
      ";", " ", "y", " ", "}", "(", ")">>

\* let x = 1
LineLetX1 ==
    <<"l", "e", "t", " ", "x", " ", "=", " ", "1">>

\* let x = x + 1; x
LineLetX2 ==
    <<"l", "e", "t", " ", "x", " ", "=", " ", "x", " ", "+", " ", "1", ";", " ", "x">>

\* fn(a) { fn() { a }() }(7)
LineNestedCall ==
    <<"f", "n", "(", "a", ")", " ", "{", " ", "f", "n", "(", ")", " ", "{", " ", "a",
      " ", "}", "(", ")", " ", "}", "(", "7", ")">>

\* x
LineReadX ==
    <<"x">>

\* let y = 3; let y = y + 1; y
LineLetThenRead ==
    <<"l", "e", "t", " ", "y", " ", "=", " ", "3", ";", " ", "l", "e", "t", " ", "y",
      " ", "=", " ", "y", " ", "+", " ", "1", ";", " ", "y">>

\* let = 5;
LineLetMissingIdent ==
    <<"l", "e", "t", " ", "=", " ", "5", ";">>

\* () + 1
LineUnwrapNone ==
    <<"(", ")", " ", "+", " ", "1">>

\* let add = fn(x, y) { x + y }; add(2, 3)
LineAdd ==
    <<"l", "e", "t", " ", "a", "d", "d", " ", "=", " ", "f", "n", "(", "x", ",", " ",
      "y", ")", " ", "{", " ", "x", " ", "+", " ", "y", " ", "}", ";", " ", "a", "d",
      "d", "(", "2", ",", " ", "3", ")">>

\* x / 0
LineDivZero ==
    <<"x", " ", "/", " ", "0">>

\* let add = fn(x, y) { x + y }; add(2, 3); add(2)
LineTooFewArgs ==
    <<"l", "e", "t", " ", "a", "d", "d", " ", "=", " ", "f", "n", "(", "x", ",", " ",
      "y", ")", " ", "{", " ", "x", " ", "+", " ", "y", " ", "}", ";", " ", "a", "d",
      "d", "(", "2", ",", " ", "3", ")", ";", " ", "a", "d", "d", "(", "2", ")">>

\* fn(a) { a }(1, 2)
LineExtraArgs ==
    <<"f", "n", "(", "a", ")", " ", "{", " ", "a", " ", "}", "(", "1", ",", " ", "2",
      ")">>

\* fn(a, a) { a }(1, 2)
LineDupParams ==
    <<"f", "n", "(", "a", ",", " ", "a", ")", " ", "{", " ", "a", " ", "}", "(", "1",
      ",", " ", "2", ")">>

\* fn(@) { 1 }
LineIllegalParam ==
    <<"f", "n", "(", "@", ")", " ", "{", " ", "1", " ", "}">>

\* if (true) { 1 } else { 2 }
LineIfElse ==
    <<"i", "f", " ", "(", "t", "r", "u", "e", ")", " ", "{", " ", "1", " ", "}", " ",
      "e", "l", "s", "e", " ", "{", " ", "2", " ", "}">>

\* let y = 1; fn() { let y = 2; let z = 3 }(); y
LineBodyLet ==
    <<"l", "e", "t", " ", "y", " ", "=", " ", "1", ";", " ", "f", "n", "(", ")", " ",
      "{", " ", "l", "e", "t", " ", "y", " ", "=", " ", "2", ";", " ", "l", "e", "t",
      " ", "z", " ", "=", " ", "3", " ", "}", "(", ")", ";", " ", "y">>

\* fn(a) { fn() { let a = 2 }(); a }(1)
LineInnerLet ==
    <<"f", "n", "(", "a", ")", " ", "{", " ", "f", "n", "(", ")", " ", "{", " ", "l",
      "e", "t", " ", "a", " ", "=", " ", "2", " ", "}", "(", ")", ";", " ", "a", " ",
      "}", "(", "1", ")">>

\* fn(a) { let w = 5; a }(if (true) { let w = 4 })
LineArgLet ==
    <<"f", "n", "(", "a", ")", " ", "{", " ", "l", "e", "t", " ", "w", " ", "=", " ",
      "5", ";", " ", "a", " ", "}", "(", "i", "f", " ", "(", "t", "r", "u", "e", ")",
      " ", "{", " ", "l", "e", "t", " ", "w", " ", "=", " ", "4", " ", "}", ")">>

\* fn(g) { g(g) }(fn(g) { g(g) })
LineSelfApply ==
    <<"f", "n", "(", "g", ")", " ", "{", " ", "g", "(", "g", ")", " ", "}", "(", "f",
      "n", "(", "g", ")", " ", "{", " ", "g", "(", "g", ")", " ", "}", ")">>

\* let f = fn() { f() }
LineLetF ==
    <<"l", "e", "t", " ", "f", " ", "=", " ", "f", "n", "(", ")", " ", "{", " ", "f",
      "(", ")", " ", "}">>

\* f()
LineCallF ==
    <<"f", "(", ")">>

\* fn() { fn() { 1 } }()()
LineReturnedFn ==
    <<"f", "n", "(", ")", " ", "{", " ", "f", "n", "(", ")", " ", "{", " ", "1", " ",
      "}", " ", "}", "(", ")", "(", ")">>

\* let f = fn(g) { fn(x) { x }(g)(g) }; f(if (true) { return f })
LineWrappedSelf ==
    <<"l", "e", "t", " ", "f", " ", "=", " ", "f", "n", "(", "g", ")", " ", "{", " ",
      "f", "n", "(", "x", ")", " ", "{", " ", "x", " ", "}", "(", "g", ")", "(", "g",
      ")", " ", "}", ";", " ", "f", "(", "i", "f", " ", "(", "t", "r", "u", "e", ")",
      " ", "{", " ", "r", "e", "t", "u", "r", "n", " ", "f", " ", "}", ")">>

\* The lines a session draws from.
Lines ==
    {LinePrecedence, LineLeftAssoc, LineBlank, LineReturnThenNine,
     LineReturnThenLet, LineLetReturnSignal, LineNestedReturn, LineCallNestedReturn,
     LineArgReturnSignal, LineFreeIdent, LineFreeIdentBare, LineLocalLet,
     LineLetX1, LineLetX2, LineReadX, LineLetThenRead,
     LineLetMissingIdent, LineUnwrapNone, LineAdd, LineDivZero, LineNestedCall,
     LineTooFewArgs, LineExtraArgs, LineDupParams, LineIllegalParam, LineIfElse,
     LineBodyLet, LineInnerLet, LineArgLet, LineSelfApply, LineLetF, LineCallF,
     LineReturnedFn, LineWrappedSelf}

\* Every line of at most MaxLineLen characters over GenChars.
GenChars == {"(", ")", "+", "*", "1", "x", ";", "!"}

RECURSIVE LinesOfLen(_)
LinesOfLen(n) ==
    IF n = 0 THEN {<< >>}
    ELSE {Append(l, c) : l \in LinesOfLen(n - 1), c \in GenChars}

GenLines == UNION {LinesOfLen(n) : n \in 0..MaxLineLen}

\* Chains of binary operators without parentheses: 1 op 2 op 3 ...
ChainOps ==
    {<<"+">>, <<"-">>, <<"*">>, <<"/">>, <<"<">>, <<">">>, <<"=", "=">>, <<"!", "=">>}

DigitChar(k) == CHOOSE d \in Digits : DigitVal(d) = k

RECURSIVE ChainsOfOps(_)
ChainsOfOps(n) ==
    IF n = 0 THEN {<<"1">>}
    ELSE {c \o op \o <<DigitChar(n + 1)>> : c \in ChainsOfOps(n - 1), op \in ChainOps}

ChainLines == UNION {ChainsOfOps(n) : n \in 1..MaxChainOps}

\* The if expressions of two lines with one parenthesis or brace left out.
MissingDelimiterLines ==
    {SubSeq(l, 1, k - 1) \o SubSeq(l, k + 1, Len(l)) :
        <<l, k>> \in {<<l, k>> \in {LineIfElse, LineLetReturnSignal} \X (1..80) :
                         k <= Len(l) /\ l[k] \in {"(", ")", "{", "}"}}}

\* "return 1" inside d nested if/else blocks, each an expression statement
\* followed in its block by a read of q; the return stands in the consequence of
\* an if (true) or in the alternative of an if (false).
RECURSIVE NestedReturns(_)
NestedReturns(d) ==
    LET return == <<"r", "e", "t", "u", "r", "n", " ", "1">>
        ifTrue == <<"i", "f", " ", "(", "t", "r", "u", "e", ")", " ", "{", " ">>
        ifFalse ==
            <<"i", "f", " ", "(", "f", "a", "l", "s", "e", ")", " ", "{", " ", "q", " ", "}", " ">>
              \o <<"e", "l", "s", "e", " ", "{", " ">>
        readQ == <<" ", "q", " ", "}">>
    IN  IF d = 0 THEN {return}
        ELSE {open \o inner \o readQ :
                 open \in {ifTrue, ifFalse}, inner \in NestedReturns(d - 1)}

\* let r = fn() { <nested return> q }(); let z = r + 1
ReturnLines ==
    LET call ==
            <<"l", "e", "t", " ", "r", " ", "=", " ">>
              \o <<"f", "n", "(", ")", " ", "{", " ">>
        after ==
            <<" ", "q", " ", "}", "(", ")", ";", " ">>
              \o <<"l", "e", "t", " ", "z", " ", "=", " ", "r", " ", "+", " ", "1">>
    IN  {call \o inner \o after :
            inner \in UNION {NestedReturns(d) : d \in 1..MaxIfNest}}

\* The session's lines with an unrecognized character put in at any one place.
IllegalLines ==
    {SubSeq(l, 1, k) \o <<"@">> \o SubSeq(l, k + 1, Len(l)) :
        <<l, k>> \in {<<l, k>> \in Lines \X (0..80) : k <= Len(l)}}

\* ------------------------------------------------------------------- driver

NoHistory == [lets |-> NoLets, gets |-> {}, sets |-> {}, calls |-> {}, entered |-> {}]

NoInfix == [operator |-> "", left |-> Null, right |-> Null, out |-> None]

\* No lexer under study. toks are the tokens next_token has returned and starts
\* the position each of them began at.
NoLex == [l |-> LexerNew(<< >>), toks |-> << >>, starts |-> << >>]

\* The session at start-up, about to read its first line.
Init ==
    /\ overflow_checks \in BOOLEAN
    /\ pc = "read"
    /\ nlines = 0
    /\ line = << >>
    /\ program = << >>
    /\ errors = << >>
    /\ stmt_i = 1
    /\ result = Null
    /\ env = EnvironmentNew
    /\ hist = NoHistory
    /\ fault = "none"
    /\ infix = NoInfix
    /\ parser = None
    /\ lex = NoLex

\* main: read_line returned a line.
ReadLine ==
    /\ pc = "read"
    /\ nlines < MaxLines
    /\ \E l \in Lines : line' = l
    /\ nlines' = nlines + 1
    /\ pc' = "parse"
    /\ program' = << >>
    /\ errors' = << >>
    /\ stmt_i' = 1
    /\ result' = Null
    /\ hist' = [NoHistory EXCEPT !.lets = hist.lets]
    /\ parser' = None
    /\ UNCHANGED <<overflow_checks, lex, env, fault, infix>>

\* main: read_line returned 0 bytes.
EndOfInput ==
    /\ pc = "read"
    /\ pc' = "exit"
    /\ UNCHANGED <<overflow_checks, lex, parser, nlines, line, program, errors, stmt_i,
                   result, env, hist, fault, infix>>

\* main: Lexer::new, Parser::new, parse_program, and the errors printed instead
\* of an evaluation.
Parse ==
    /\ pc = "parse"
    /\ LET parsed(r) ==
            /\ parser' = Some(r.p)
            /\ IF r.p.panic
               THEN /\ pc' = "crashed"
                    /\ fault' = IF r.p.unwrap_none THEN "unwrap on None"
                                ELSE "integer literal overflow"
                    /\ UNCHANGED <<program, errors>>
               ELSE /\ program' = r.r
                    /\ errors' = r.p.errors
                    /\ pc' = IF Len(r.p.errors) > 0 THEN "read" ELSE "eval"
                    /\ fault' = fault
       IN  parsed(parse_program(ParserNew(LexerNew(line))))
    /\ UNCHANGED <<overflow_checks, lex, nlines, line, stmt_i, result, env, hist,
                   infix>>

\* The evaluator's record for a statement of the program, run on the session
\* Environment.
SessionState ==
    [store |-> env, depth |-> 0, self |-> None, params |-> {}, lets |-> hist.lets,
     fault |-> "none", gets |-> hist.gets, sets |-> hist.sets, calls |-> hist.calls,
     entered |-> hist.entered]

\* The history the evaluator's record carries.
History(s) ==
    [lets |-> s.lets, gets |-> s.gets, sets |-> s.sets, calls |-> s.calls,
     entered |-> s.entered]

\* eval_program whose loop does not stop at a ReturnValue.
EvalStatement_NoStop ==
    /\ pc = "eval"
    /\ stmt_i <= Len(program)
    /\ LET evaluated(r) ==
               IF Faulted(r.s)
               THEN /\ pc' = "crashed"
                    /\ fault' = r.s.fault
                    /\ hist' = [History(r.s) EXCEPT !.lets = hist.lets]
                    /\ UNCHANGED <<stmt_i, result, env>>
               ELSE /\ env' = r.s.store
                    /\ hist' = History(r.s)
                    /\ fault' = fault
                    /\ result' = IF IsReturnValue(r.obj) THEN r.obj.val ELSE r.obj
                    /\ pc' = "eval"
                    /\ stmt_i' = stmt_i + 1
       IN  evaluated(eval_statement(program[stmt_i], SessionState))
    /\ UNCHANGED <<overflow_checks, lex, parser, nlines, line, program, errors, infix>>

\* eval_program: one iteration of the loop over the program's statements.
EvalStatement ==
    /\ pc = "eval"
    /\ stmt_i <= Len(program)
    /\ LET evaluated(r) ==
               IF Faulted(r.s)
               THEN /\ pc' = "crashed"
                    /\ fault' = r.s.fault
                    /\ hist' = [History(r.s) EXCEPT !.lets = hist.lets]
                    /\ UNCHANGED <<stmt_i, result, env>>
               ELSE /\ env' = r.s.store
                    /\ hist' = History(r.s)
                    /\ fault' = fault
                    /\ IF IsReturnValue(r.obj)
                       THEN /\ result' = r.obj.val
                            /\ pc' = "print"
                            /\ stmt_i' = stmt_i
                       ELSE /\ result' = r.obj
                            /\ pc' = "eval"
                            /\ stmt_i' = stmt_i + 1
       IN  evaluated(eval_statement(program[stmt_i], SessionState))
    /\ UNCHANGED <<overflow_checks, lex, parser, nlines, line, program, errors, infix>>

\* eval_program: the loop is over, result is returned.
EvalEnd ==
    /\ pc = "eval"
    /\ stmt_i > Len(program)
    /\ pc' = "print"
    /\ UNCHANGED <<overflow_checks, lex, parser, nlines, line, program, errors, stmt_i,
                   result, env, hist, fault, infix>>

\* main: println!("{}", evaluated), and on to the next line.
PrintResult ==
    /\ pc = "print"
    /\ pc' = "read"
    /\ UNCHANGED <<overflow_checks, lex, parser, nlines, line, program, errors, stmt_i,
                   result, env, hist, fault, infix>>

Next == ReadLine \/ EndOfInput \/ Parse \/ EvalStatement \/ EvalEnd \/ PrintResult

Spec == Init /\ [][Next]_vars

\* One line through the pipeline, the line drawn from the generated lines and
\* the operator chains.
InitParse ==
    /\ overflow_checks \in BOOLEAN
    /\ pc = "parse"
    /\ nlines = 1
    /\ line \in GenLines \cup ChainLines \cup Lines \cup IllegalLines
                \cup MissingDelimiterLines \cup ReturnLines
    /\ program = << >>
    /\ errors = << >>
    /\ stmt_i = 1
    /\ result = Null
    /\ env = EnvironmentNew
    /\ hist = NoHistory
    /\ fault = "none"
    /\ infix = NoInfix
    /\ parser = None
    /\ lex = NoLex

NextParse == Parse \/ EvalStatement \/ EvalEnd \/ PrintResult

SpecParse == InitParse /\ [][NextParse]_vars

\* One application of an infix operator to a pair of Objects.
InfixOperators == {"+", "-", "*", "/", "<", ">", "==", "!="}

SomeBody == <<ExpressionStatement(Identifier(<<"a">>))>>

Operands ==
    {Integer(i) : i \in INT_MIN..INT_MAX}
        \cup {Boolean(TRUE), Boolean(FALSE), Null, Function(<<<<"a">>>>, SomeBody),
              ReturnValue(Integer(1)), ReturnValue(Null)}

InitInfix ==
    /\ overflow_checks \in BOOLEAN
    /\ pc = "infix"
    /\ nlines = 0
    /\ line = << >>
    /\ program = << >>
    /\ errors = << >>
    /\ stmt_i = 1
    /\ result = Null
    /\ env = EnvironmentNew
    /\ hist = NoHistory
    /\ fault = "none"
    /\ parser = None
    /\ lex = NoLex
    /\ \E o \in InfixOperators, l \in Operands, r \in Operands :
          infix = [operator |-> o, left |-> l, right |-> r, out |-> None]

\* Expression::Infix of eval_expression, once its operands are evaluated.
ApplyInfix ==
    /\ pc = "infix"
    /\ LET applied(v) ==
               /\ infix' = [infix EXCEPT !.out = Some(v.obj)]
               /\ fault' = v.fault
               /\ pc' = IF v.fault = "none" THEN "done" ELSE "crashed"
       IN  applied(eval_infix_expression(infix.operator, infix.left, infix.right))
    /\ UNCHANGED <<overflow_checks, lex, parser, nlines, line, program, errors, stmt_i,
                   result, env, hist>>

NextInfix == ApplyInfix

SpecInfix == InitInfix /\ [][NextInfix]_vars

\* A lexer on its own: next_token called again and again on one input, up to
\* MaxCallsPastEnd calls more than the input has characters.
LexChars == {"1", "x", "+", " ", "@", NUL}

RECURSIVE LexLinesOfLen(_)
LexLinesOfLen(n) ==
    IF n = 0 THEN {<< >>}
    ELSE {Append(l, c) : l \in LexLinesOfLen(n - 1), c \in LexChars}

LexLines == UNION {LexLinesOfLen(n) : n \in 0..MaxLineLen}

InitLex ==
    /\ overflow_checks \in BOOLEAN
    /\ pc = "lex"
    /\ nlines = 1
    /\ line \in LexLines
    /\ program = << >>
    /\ errors = << >>
    /\ stmt_i = 1
    /\ result = Null
    /\ env = EnvironmentNew
    /\ hist = NoHistory
    /\ fault = "none"
    /\ infix = NoInfix
    /\ parser = None
    /\ lex = [l |-> LexerNew(line), toks |-> << >>, starts |-> << >>]

\* One call of Lexer::next_token.
LexNextToken ==
    /\ pc = "lex"
    /\ Len(lex.toks) < Len(line) + MaxCallsPastEnd
    /\ LET returned(r) ==
               /\ lex' = [l |-> r.l, toks |-> Append(lex.toks, r.tok),
                          starts |-> Append(lex.starts, skip_whitespace(lex.l).position)]
               /\ pc' = IF r.panic THEN "crashed" ELSE "lex"
               /\ fault' = IF r.panic THEN "integer literal overflow" ELSE fault
       IN  returned(lexer_next_token(lex.l))
    /\ UNCHANGED <<overflow_checks, nlines, line, program, errors, stmt_i, result, env,
                   hist, infix, parser>>

NextLex == LexNextToken

SpecLex == InitLex /\ [][NextLex]_vars

\* ------------------------------------------------------------------- claims

\* The precedence table of binary operators, lowest level first.
TableLevel(operator) ==
    CASE operator \in {"==", "!="} -> 1
      [] operator \in {"<", ">"} -> 2
      [] operator \in {"+", "-"} -> 3
      [] operator \in {"*", "/"} -> 4

OperatorChars(operator) ==
    CASE operator = "==" -> <<"=", "=">>
      [] operator = "!=" -> <<"!", "=">>
      [] OTHER -> <<operator>>

\* The tree is built of infix nodes over integer literals only.
RECURSIVE IsChainTree(_)
IsChainTree(e) ==
    \/ e.kind = "IntegerLiteral"
    \/ /\ e.kind = "Infix"
       /\ e.operator \in InfixOperators
       /\ IsChainTree(e.left)
       /\ IsChainTree(e.right)

\* The characters of a chain tree read from left to right.
RECURSIVE InOrderChars(_)
InOrderChars(e) ==
    IF e.kind = "IntegerLiteral" THEN <<DigitChar(e.int)>>
    ELSE InOrderChars(e.left) \o OperatorChars(e.operator) \o InOrderChars(e.right)

\* The grouping the table dictates: a right operand is an operator of a higher
\* level only, a left operand one of the same or a higher level.
RECURSIVE GroupedByTable(_)
GroupedByTable(e) ==
    \/ e.kind = "IntegerLiteral"
    \/ /\ GroupedByTable(e.left)
       /\ GroupedByTable(e.right)
       /\ e.right.kind = "Infix" => TableLevel(e.right.operator) > TableLevel(e.operator)
       /\ e.left.kind = "Infix" => TableLevel(e.left.operator) >= TableLevel(e.operator)

ChainPrecedence == <<"1", "+", "2", "*", "3">>
ChainLeftAssoc == <<"1", "-", "2", "-", "3">>
ChainMixed == <<"1", "-", "2", "*", "3", "-", "4">>

\* C1: every chain of binary operators without parentheses parses, without an
\* error, to the one expression statement whose tree reads as the chain and is
\* grouped by the precedence table with equal levels left-associative;
\* "1+2*3" evaluates to 7 and "1-2-3" to -4.
C1_ChainsFollowPrecedenceTable ==
    /\ (line \in ChainLines /\ pc # "parse") =>
          /\ Len(errors) = 0
          /\ fault \notin {"unwrap on None", "integer literal overflow"}
          /\ Len(program) = 1
          /\ program[1].kind = "Expression"
          /\ IsChainTree(program[1].expression)
          /\ InOrderChars(program[1].expression) = line
          /\ GroupedByTable(program[1].expression)
    /\ (line = ChainPrecedence /\ pc = "print") => result = Integer(7)
    /\ (line = ChainLeftAssoc /\ pc = "print") => result = Integer(0 - 4)

\* A chain that needs both rules, parsed as ((1 - (2 * 3)) - 4) and evaluated.
C1_Witness ==
    /\ line = ChainMixed
    /\ pc = "print"
    /\ program[1].expression.operator = "-"
    /\ program[1].expression.left.right.operator = "*"
    /\ result = Integer(0 - 9)

\* C2: once a top-level statement's result is a ReturnValue, eval_program
\* returns the wrapped value: the step that evaluates that statement ends the
\* loop, and until the next line is read nothing is evaluated any more, so the
\* statements after it leave the session Environment alone.
C2_ReturnStopsProgram ==
    /\ [][/\ (pc = "eval" /\ pc' = "eval") => ~IsReturnValue(result')
          /\ (pc = "eval" /\ stmt_i <= Len(program) /\ pc' # "crashed"
                /\ IsReturnValue(eval_statement(program[stmt_i], SessionState).obj))
             => /\ pc' = "print"
                /\ stmt_i' = stmt_i
                /\ result' = eval_statement(program[stmt_i], SessionState).obj.val
          /\ pc = "print"
             => (pc' = "read" /\ env' = env /\ hist' = hist /\ result' = result)
         ]_vars
    /\ [](line = LineReturnThenNine /\ pc = "print"
             => result = Integer(5) /\ stmt_i = 2)
    /\ [](line = LineReturnThenLet /\ pc \in {"print", "read"}
             => env[<<"y">>] = Integer(5))

\* "let x = 5; return x; 9" has returned 5 at its second statement of three.
C2_Witness ==
    /\ line = LineReturnThenNine
    /\ pc = "print"
    /\ Len(program) = 3
    /\ stmt_i = 2
    /\ result = Integer(5)

\* C3: no binding of the session Environment, and no binding made in any
\* Environment (a function call's included), holds a ReturnValue.
C3_NoReturnValueStored ==
    /\ \A n \in DOMAIN env : ~IsReturnValue(env[n])
    /\ \A e \in hist.sets : ~IsReturnValue(e.val)

\* C4: the Object eval_program returns and the Object every function call
\* produces is never a ReturnValue.
C4_ResultsAreUnwrapped ==
    /\ pc = "print" => ~IsReturnValue(result)
    /\ \A c \in hist.calls : ~IsReturnValue(c.result)

\* C5 as stated: inside a function call an identifier that is not a parameter
\* of the function evaluates to Null.
C5_NonParameterIsNull ==
    \A g \in hist.gets : (g.depth > 0 /\ ~g.isParam) => g.val = Null

\* C5 as amended: inside a function call an identifier that is neither a
\* parameter of the function nor bound by a let statement evaluated earlier in
\* the same call evaluates to Null, whatever the caller's Environment and the
\* session Environment hold.
C5_FreeIdentifierIsNull ==
    \A g \in hist.gets :
        (g.depth > 0 /\ ~g.isParam /\ g.let = None) => g.val = Null

\* A function body has read, as Null, a name the session Environment binds.
C5_Witness ==
    \E g \in hist.gets :
        /\ g.depth > 0
        /\ ~g.isParam
        /\ g.let = None
        /\ g.name \in DOMAIN env
        /\ g.val = Null

\* C6: the session Environment holds, for every name, the value of the most
\* recent let of that name evaluated in it, on this line or an earlier one, and
\* every read of a name in it returns that value, or Null if there was no such
\* let.
C6_LastWriteWins ==
    /\ DOMAIN env = DOMAIN hist.lets
    /\ \A n \in DOMAIN env : env[n] = hist.lets[n]
    /\ \A g \in hist.gets :
          g.depth = 0 => g.val = (IF g.let = None THEN Null ELSE g.let[1])

\* On the second line "let x = x + 1; x" has read the 1 an earlier line bound,
\* overwritten it and read 2.
C6_Witness ==
    /\ nlines = 2
    /\ line = LineLetX2
    /\ pc = "print"
    /\ result = Integer(2)
    /\ env[<<"x">>] = Integer(2)

\* C7: parsing "let = 5;" records at least one error and yields a program with
\* no statements.
C7_FailedLetLeavesNoStatement ==
    (line = LineLetMissingIdent /\ pc # "parse")
        => (Len(errors) >= 1 /\ Len(program) = 0)

\* C8: no input makes the parser panic.
C8_ParserNeverPanics == fault # "unwrap on None"

\* C9: an infix operator applied to a pair of operands of which one is not an
\* Integer evaluates to Null and does not panic.
C9_NonIntegerOperandIsNull ==
    (pc # "infix" /\ (infix.left.type # "Integer" \/ infix.right.type # "Integer"))
        => (fault = "none" /\ pc = "done" /\ infix.out = Some(Null))

\* true + 1 has evaluated to Null.
C9_Witness ==
    /\ pc = "done"
    /\ infix.operator = "+"
    /\ infix.left = Boolean(TRUE)
    /\ infix.right = Integer(1)
    /\ infix.out = Some(Null)

\* C10: on a pair of Integers the arithmetic operators produce an Integer, the
\* comparisons a Boolean, division truncates toward zero, and the only pairs
\* that panic are the divisions by zero.
C10_OnlyZeroDivisorPanics ==
    (pc # "infix" /\ infix.left.type = "Integer" /\ infix.right.type = "Integer")
        => /\ (fault # "none") <=> (infix.operator = "/" /\ infix.right.int = 0)
           /\ (fault = "none" /\ infix.operator \in {"+", "-", "*", "/"})
                 => infix.out[1].type = "Integer"
           /\ (fault = "none" /\ infix.operator \in {"<", ">", "==", "!="})
                 => infix.out[1].type = "Boolean"
           /\ (fault = "none" /\ infix.operator = "/")
                 => /\ Abs(infix.out[1].int) * Abs(infix.right.int) <= Abs(infix.left.int)
                    /\ Abs(infix.left.int) - Abs(infix.out[1].int) * Abs(infix.right.int)
                           < Abs(infix.right.int)

\* The last position at which name stands among parameters.
LastPosition(parameters, name) ==
    CHOOSE i \in 1..Len(parameters) :
        /\ parameters[i] = name
        /\ \A j \in (i + 1)..Len(parameters) : parameters[j] # name

\* C11: a call that returned had at least as many arguments as parameters, set
\* parameter i to argument i for every position i in an Environment that holds
\* the parameters' names and nothing else (a name that stands twice keeps the
\* argument of its last position), and yielded the value of the body, unwrapped
\* if it was a ReturnValue; a call with fewer arguments than parameters panics,
\* and a call with enough arguments returns unless its body panics.
C11_CallBindsByPosition ==
    /\ \A c \in hist.calls :
          /\ Len(c.args) >= Len(c.fn.parameters)
          /\ DOMAIN c.bound = {c.fn.parameters[i] : i \in 1..Len(c.fn.parameters)}
          /\ \A i \in 1..Len(c.fn.parameters) :
                /\ [depth |-> c.depth, name |-> c.fn.parameters[i], val |-> c.args[i]]
                       \in hist.sets
                /\ c.bound[c.fn.parameters[i]]
                       = c.args[LastPosition(c.fn.parameters, c.fn.parameters[i])]
          /\ c.result = (IF IsReturnValue(c.body) THEN c.body.val ELSE c.body)
    /\ \A e \in hist.entered :
          /\ (Len(e.args) < Len(e.fn.parameters) /\ e.depth <= MaxDepth)
                => (pc = "crashed" /\ fault = "index out of bounds")
          /\ (Len(e.args) >= Len(e.fn.parameters) /\ pc # "crashed")
                => \E c \in hist.calls :
                       c.depth = e.depth /\ c.fn = e.fn /\ c.args = e.args
    /\ fault = "index out of bounds"
          => \E e \in hist.entered : Len(e.args) < Len(e.fn.parameters)
    /\ (line = LineAdd /\ pc = "print") => result = Integer(5)
    /\ (line = LineExtraArgs /\ pc = "print") => result = Integer(1)

\* add(2, 3) has returned 5 with x = 2 and y = 3, and add(2) has panicked.
C11_Witness ==
    /\ line = LineTooFewArgs
    /\ pc = "crashed"
    /\ fault = "index out of bounds"
    /\ \E c \in hist.calls :
          /\ c.bound[<<"x">>] = Integer(2)
          /\ c.bound[<<"y">>] = Integer(3)
          /\ c.result = Integer(5)
    /\ \E e \in hist.entered : Len(e.args) = 1 /\ Len(e.fn.parameters) = 2

\* The tokens the lexer produces from l on, up to the first EOF (or the panic).
RECURSIVE TokensFrom(_)
TokensFrom(l) ==
    LET token(r) ==
            IF r.panic \/ r.tok.type = "EOF" THEN <<r.tok>>
            ELSE <<r.tok>> \o TokensFrom(r.l)
    IN  token(lexer_next_token(l))

HasIllegal(input) ==
    \E i \in DOMAIN TokensFrom(LexerNew(input)) :
        TokensFrom(LexerNew(input))[i].type = "Illegal"

\* C12: parse_program, run on a line of which the lexer makes an Illegal token,
\* records at least one error.
C12_IllegalIsParseError ==
    (parser # None /\ ~parser[1].panic /\ HasIllegal(line))
        => Len(parser[1].errors) >= 1

\* C13: parsing an if expression from which the opening parenthesis, the
\* closing parenthesis, an opening brace or a closing brace is absent records
\* at least one error.
C13_MissingDelimiterIsParseError ==
    (parser # None /\ ~parser[1].panic /\ line \in MissingDelimiterLines)
        => Len(parser[1].errors) >= 1

\* C14: once next_token has returned EOF every later call returns EOF, and
\* EOF is returned only by a call that began with no character of the input
\* left.
C14_EofIsSticky ==
    \A i \in DOMAIN lex.toks :
        lex.toks[i].type = "EOF"
            => /\ lex.starts[i] >= Len(line)
               /\ \A j \in DOMAIN lex.toks : j > i => lex.toks[j].type = "EOF"

\* C15: in "let r = fn() { <nested return> q }(); let z = r + 1", whatever the
\* depth and the branches of the if/else blocks around "return 1", the body of
\* the function yields the ReturnValue still wrapped, no read of q in any of the
\* blocks is evaluated, the call yields 1, and the statement after the call is
\* evaluated with it.
C15_ReturnBubblesToCall ==
    (line \in ReturnLines /\ pc # "parse")
        => /\ Len(errors) = 0
           /\ pc # "crashed"
           /\ Len(program) = 2
           /\ (pc = "eval" /\ stmt_i = 1) => hist.calls = {}
           /\ (pc = "eval" /\ stmt_i = 2) =>
                 /\ \A g \in hist.gets : g.name # <<"q">>
                 /\ Cardinality(hist.calls) = 1
                 /\ \A c \in hist.calls :
                       c.body = ReturnValue(Integer(1)) /\ c.result = Integer(1)
                 /\ env[<<"r">>] = Integer(1)
           /\ pc \in {"print", "read"} =>
                 /\ \A g \in hist.gets : g.name # <<"q">>
                 /\ env[<<"r">>] = Integer(1)
                 /\ env[<<"z">>] = Integer(2)
                 /\ result = Integer(2)

\* The longest of the lines, a return inside MaxIfNest nested alternatives of
\* if (false), has ended its call with 1 and the next statement has bound z.
C15_Witness ==
    /\ line \in ReturnLines
    /\ \A l \in ReturnLines : Len(l) <= Len(line)
    /\ pc = "print"
    /\ Len(program) = 2
    /\ program[1].value.function.body[1].expression.alternative # None
    /\ \E c \in hist.calls : c.body = ReturnValue(Integer(1)) /\ c.result = Integer(1)
    /\ env[<<"z">>] = Integer(2)

\* C16: a statement changes or adds a binding of the session Environment only
\* by a let statement (or a let inside an if block) evaluated at the top level,
\* never by what a function body binds; inside a function, too, a name read
\* after a call has the value of the caller's own last let of it, or else the
\* argument the caller was called with.
C16_CallLeavesCallerEnvironment ==
    /\ [][(pc = "eval" /\ pc' # "crashed") =>
             /\ DOMAIN env \subseteq DOMAIN env'
             /\ \A n \in DOMAIN env' :
                   (n \notin DOMAIN env \/ env'[n] # env[n]) =>
                       \E e \in hist'.sets :
                           e.depth = 0 /\ e.name = n /\ e.val = env'[n]
         ]_vars
    /\ [](\A g \in hist.gets :
             /\ (g.depth > 0 /\ g.let # None) => g.val = g.let[1]
             /\ (g.depth > 0 /\ g.let = None /\ g.isParam) =>
                   \E e \in hist.entered :
                       /\ e.depth = g.depth
                       /\ \E i \in DOMAIN e.fn.parameters :
                             /\ i <= Len(e.args)
                             /\ e.fn.parameters[i] = g.name
                             /\ e.args[i] = g.val)
    /\ [](line = LineBodyLet /\ pc = "print"
             => (result = Integer(1) /\ env[<<"y">>] = Integer(1)))
    /\ [](line = LineInnerLet /\ pc = "print" => result = Integer(1))
    /\ [](line = LineArgLet /\ pc = "print"
             => (result = Integer(4) /\ env[<<"w">>] = Integer(4)))

\* "let y = 1; fn() { let y = 2; let z = 3 }(); y": the call has bound y and z
\* in its own Environment and the session still reads y = 1.
C16_Witness ==
    /\ line = LineBodyLet
    /\ pc = "print"
    /\ [depth |-> 1, name |-> <<"y">>, val |-> Integer(2)] \in hist.sets
    /\ [depth |-> 1, name |-> <<"z">>, val |-> Integer(3)] \in hist.sets
    /\ env[<<"y">>] = Integer(1)
    /\ result = Integer(1)

\* C17: on every input parse_program returns, and returns with the parser at
\* EOF.
C17_ParseReachesEofAndReturns ==
    parser # None => (~parser[1].panic /\ parser[1].cur_token.type = "EOF")

\* The greatest of a set of naturals, 0 for the empty set.
Greatest(S) == CHOOSE x \in S \cup {0} : \A y \in S \cup {0} : y <= x

\* The syntactic nesting depth of function literals in an expression, a
\* statement and a block.
RECURSIVE LiteralNesting(_)
RECURSIVE StatementNesting(_)
RECURSIVE BlockNesting(_)
LiteralNesting(e) ==
    CASE e.kind = "Prefix" -> LiteralNesting(e.right)
      [] e.kind = "Infix" -> Greatest({LiteralNesting(e.left), LiteralNesting(e.right)})
      [] e.kind = "If" ->
            Greatest({LiteralNesting(e.condition), BlockNesting(e.consequence)}
                        \cup {BlockNesting(e.alternative[i]) :
                                 i \in DOMAIN e.alternative})
      [] e.kind = "Function" -> 1 + BlockNesting(e.body)
      [] e.kind = "Call" ->
            Greatest({LiteralNesting(e.function)}
                        \cup {LiteralNesting(e.arguments[i]) : i \in DOMAIN e.arguments})
      [] OTHER -> 0

StatementNesting(stmt) ==
    CASE stmt.kind = "Let" -> LiteralNesting(stmt.value)
      [] stmt.kind = "Return" -> LiteralNesting(stmt.return_value)
      [] OTHER -> LiteralNesting(stmt.expression)

BlockNesting(block) == Greatest({StatementNesting(block[i]) : i \in DOMAIN block})

\* C18: while no call has received a Function as an argument, evaluation does
\* not exhaust the call stack, a call made at the top level is no deeper than
\* one, and a call made from a function's body is of a function literal nested
\* inside that body, so that the depth of nested calls stays within the nesting
\* depth of the function literals.
C18_NoRecursionWithoutFunctionArgument ==
    (\A e \in hist.entered : \A i \in DOMAIN e.args : e.args[i].type # "Function")
        => /\ fault # "stack overflow"
           /\ \A e \in hist.entered :
                 /\ e.caller = None => e.depth = 1
                 /\ e.caller # None =>
                       BlockNesting(e.fn.body) < BlockNesting(e.caller[1].body)

====
